---- MODULE Spec2Model ----
(***************************************************************************)
(* Order fulfilment pipeline and broadcast hub of restaurant-service.      *)
(*                                                                         *)
(* Two specifications share this module:                                   *)
(*   Spec     the order store (internal/db/repository/order_repo.go) as    *)
(*            driven by the order service (internal/service/order.go);     *)
(*   SpecHub  the websocket hub and its client sessions                    *)
(*            (internal/websockets/hub.go, client.go).                     *)
(*                                                                         *)
(* Money is counted in cents (DECIMAL(10,2) columns).  Database statements *)
(* run in autocommit mode unless the code opens a transaction, so every    *)
(* statement outside a transaction is one step that other requests may     *)
(* interleave with; a transaction takes effect at its commit.              *)
(***************************************************************************)
EXTENDS Integers, Sequences, FiniteSets, TLC

\* ------------------------------------------------------------------ bounds
MaxRequests == 3    \* client requests received in one behaviour
SendCap     == 1    \* capacity of a client's send channel (256 in NewClient)
WideCap     == 2    \* capacity of a display's send channel (256 in NewClient)

\* The server runs every request on a goroutine of its own: request number k is
\* call k, and any number of them may be in flight together.
Workers == 1..MaxRequests

NULL == "NULL"

\* A nullable TIMESTAMP column: <<>> is NULL, <<t>> the time t.
NullTime == <<>>

\* ----------------------------------------------------------------- statuses
OrderStatusNew        == "new"
OrderStatusInProgress == "in_progress"
OrderStatusCompleted  == "completed"
OrderStatusCancelled  == "cancelled"

OrderItemStatusPending    == "pending"
OrderItemStatusInProgress == "in_progress"
OrderItemStatusCompleted  == "completed"
OrderItemStatusCancelled  == "cancelled"

\* CHECK (status IN (...)) of the orders and order_items tables.
OrderStatusCheck == {OrderStatusNew, OrderStatusInProgress, OrderStatusCompleted, OrderStatusCancelled}
OrderItemStatusCheck == {OrderItemStatusPending, OrderItemStatusInProgress, OrderItemStatusCompleted, OrderItemStatusCancelled}

\* The handlers cast the request's string to a status without validating it.
RequestedOrderStatuses == OrderStatusCheck \cup {"bogus"}
RequestedItemStatuses  == OrderItemStatusCheck \cup {"bogus"}

VARIABLES
    menu_items,            \* catalog: menu item id -> [name, price]
    routing_rules,         \* catalog: set of [menu_item_id, station_id, priority]
    modifier_options,      \* catalog: option id -> [name, price_adjustment]
    stations,              \* station id -> [printer_id]
    orders,                \* committed rows of table orders (id = index)
    order_items,           \* committed rows of table order_items (id = index)
    order_item_modifiers,  \* committed rows of table order_item_modifiers
    requests,              \* the number of requests received so far
    calls,                 \* per request: where it stands, while it is in flight
    last,                  \* the response most recently returned to a caller
    tickets                \* the tickets PrintOrderItems has written to a printer

storeVars == <<menu_items, routing_rules, modifier_options, stations, orders,
               order_items, order_item_modifiers, requests, calls, last, tickets>>

tables == <<orders, order_items, order_item_modifiers>>
catalog == <<menu_items, routing_rules, modifier_options, stations>>

\* The hub and its sessions.
VARIABLES
    clients,               \* Hub.clients: the keys of the map
    stationChannels,       \* Hub.stationChannels: station id -> set of clients
    mu,                    \* Hub.mu: "free" or the goroutine holding it
    send,                  \* Client.send: the messages buffered in the channel
    closed,                \* Client.send has been closed
    hub,                   \* where the goroutine of Hub.Run stands
    sessions,              \* per client: its connection and its two pumps
    callers,               \* per caller of BroadcastToStation: where it stands
    panicked,              \* the last runtime panic raised, "none" if none
    crashed                \* an unrecovered panic has ended the process

hubVars == <<clients, stationChannels, mu, send, closed, hub, sessions, callers,
             panicked, crashed>>

vars == <<storeVars, hubVars>>

Idle == [op |-> "idle"]

\* time.Now(): the clock is read in units of requests received, so two statements
\* read different times when a request arrived between them.
now == requests

\* The call that serves the next request, while the bound allows one.
Arriving == IF requests < MaxRequests THEN {requests + 1} ELSE {}

\* A request arrives: it is counted, and w is the call that serves it.
Receive(w) ==
    /\ requests < MaxRequests
    /\ w = requests + 1
    /\ requests' = requests + 1

\* -------------------------------------------------------------------- hub
Clients    == {"c1", "c2"}          \* connections upgraded to a websocket
StationIDs == {"s1", "s2"}          \* station ids clients register for
Messages   == {"m1"}                \* broadcast payloads
Callers    == {"t1"}                \* goroutines calling BroadcastToStation
Pong       == "pong"

\* Two displays whose connections are watched: what writePump writes to them is
\* kept, frame by frame, and their queues are modelled with WideCap slots.
Displays     == {"d1", "d2"}
Broadcasts   == {"m1", "m2"}        \* payloads broadcast to the displays
Connections  == Clients \cup Displays

Select == [at |-> "select"]
NoSession == [readPump |-> "none", writePump |-> "none", wire |-> <<>>]

\* The display.register messages the clients send: c1 is a display that moves
\* between the two stations, c2 a display of the first station.
Registrations == {<<"c1", "s1">>, <<"c1", "s2">>, <<"c2", "s1">>}

\* --------------------------------------------------------------- requests
\* models.OrderItemRequest values a client may send.
Line(menu_item_id, quantity, special_instructions, modifiers) ==
    [menu_item_id |-> menu_item_id, quantity |-> quantity,
     special_instructions |-> special_instructions, modifiers |-> modifiers]

Burger    == Line("burger", 2, <<"rare">>, <<"cheese">>)  \* 2 x (8.00 + 1.50)
Soda      == Line("soda", 1, <<>>, <<>>)
Ghost     == Line("ghost", 1, <<>>, <<>>)                 \* no such menu item
Salad     == Line("salad", 1, <<>>, <<>>)                 \* no routing rule
SodaNoMod == Line("soda", 1, <<>>, <<"nomod">>)           \* no such modifier option
SodaZero  == Line("soda", 0, <<>>, <<>>)                  \* quantity below 1

\* models.OrderRequest values a client may send: the three that succeed have one
\* line, two lines for two stations, and two lines for one station; the others
\* fail at their first or at their second line.  The handler decodes the body
\* and passes it on: the validate tags of the request types are read by no code,
\* so a request without lines and a line of quantity 0 reach the repository.
OrderRequests ==
    { <<Burger>>, <<Burger, Soda>>, <<Soda, Soda>>,
      <<Ghost>>, <<Salad>>, <<SodaNoMod>>,
      <<Soda, Ghost>>, <<Burger, Salad>>, <<Burger, SodaNoMod>>,
      <<>>, <<SodaZero>> }

\* NewHub(): empty maps; no connection has been upgraded yet.
InitHub ==
    /\ clients = {}
    /\ stationChannels = [s \in StationIDs |-> {}]
    /\ mu = "free"
    /\ send = [c \in Connections |-> <<>>]
    /\ closed = [c \in Connections |-> FALSE]
    /\ hub = Select
    /\ sessions = [c \in Connections |-> NoSession]
    /\ callers = [t \in Callers |-> Idle]
    /\ panicked = "none"
    /\ crashed = FALSE

Init ==
    /\ menu_items = [m \in {"burger", "soda", "salad"} |->
                        CASE m = "burger" -> [name |-> "Burger", price |-> 800]
                          [] m = "soda"   -> [name |-> "Soda",   price |-> 300]
                          [] OTHER        -> [name |-> "Salad",  price |-> 500]]
    /\ routing_rules = { [menu_item_id |-> "burger", station_id |-> "bar",     priority |-> 3],
                         [menu_item_id |-> "burger", station_id |-> "kitchen", priority |-> 1],
                         [menu_item_id |-> "burger", station_id |-> "grill",   priority |-> 2],
                         [menu_item_id |-> "soda",   station_id |-> "bar",     priority |-> 1] }
    /\ modifier_options = [x \in {"cheese"} |-> [name |-> "Cheese", price_adjustment |-> 150]]
    /\ stations = [s \in {"kitchen", "bar", "grill"} |->
                      [printer_id |-> CASE s = "kitchen" -> "printer1"
                                        [] s = "bar"     -> "printer2"
                                        [] OTHER         -> NULL]]
    /\ orders = <<>>
    /\ order_items = <<>>
    /\ order_item_modifiers = <<>>
    /\ requests = 0
    /\ calls = [w \in Workers |-> Idle]
    /\ last = [op |-> "none", ret |-> "none"]
    /\ tickets = {}
    /\ InitHub

\* ------------------------------------------------------ OrderRepository.Create
\* The routing query with ORDER BY priority DESC: any rule of the highest value.
HighestPriorityStations(menu_item_id) ==
    { r.station_id : r \in { q \in routing_rules :
          /\ q.menu_item_id = menu_item_id
          /\ \A o \in routing_rules :
                o.menu_item_id = menu_item_id => q.priority >= o.priority } }

\* SELECT station_id FROM routing_rules WHERE menu_item_id = $1
\* ORDER BY priority ASC LIMIT 1: any rule of the lowest priority value.
LowestPriorityStations(menu_item_id) ==
    { r.station_id : r \in { q \in routing_rules :
          /\ q.menu_item_id = menu_item_id
          /\ \A o \in routing_rules :
                o.menu_item_id = menu_item_id => q.priority <= o.priority } }

\* The state of an open transaction of Create: the rows it has inserted, which no
\* other connection sees before the commit.
BeginTx(order) ==
    [order |-> order, items |-> <<>>, mods |-> <<>>, price |-> 0, err |-> "none"]

\* The modifier loop of one line: each option is looked up, its adjustment added
\* to the local price, and a modifier row inserted for the item row item_id.
RECURSIVE InsertModifiers(_, _, _, _)
InsertModifiers(tx, item_id, mods, k) ==
    IF k > Len(mods) THEN tx
    ELSE IF mods[k] \notin DOMAIN modifier_options
         THEN [tx EXCEPT !.err = "failed to get modifier option"]
         ELSE LET option == modifier_options[mods[k]]
                  row == [order_item_id |-> item_id,
                          modifier_option_id |-> mods[k],
                          price_adjustment |-> option.price_adjustment]
              IN InsertModifiers(
                     [tx EXCEPT !.price = @ + option.price_adjustment,
                                !.mods = Append(@, row)],
                     item_id, mods, k + 1)

\* The line loop with a total that counts every line once, whatever its quantity.
InsertLineOnce(tx, itemReq, stationID, item_id) ==
    IF itemReq.menu_item_id \notin DOMAIN menu_items
    THEN [tx EXCEPT !.err = "failed to get menu item"]
    ELSE IF stationID = NULL
    THEN [tx EXCEPT !.err = "failed to get routing station"]
    ELSE IF itemReq.quantity <= 0
    THEN [tx EXCEPT !.err = "failed to create order item"]
    ELSE LET menuItem == menu_items[itemReq.menu_item_id]
             createdItem == [order_id |-> tx.order.id,
                             menu_item_id |-> itemReq.menu_item_id,
                             station_id |-> stationID,
                             quantity |-> itemReq.quantity,
                             price |-> 0,
                             status |-> OrderItemStatusPending,
                             special_instructions |-> itemReq.special_instructions,
                             sent_to_station_at |-> NullTime,
                             completed_at |-> NullTime]
             tx1 == [tx EXCEPT !.items = Append(@, createdItem),
                               !.price = menuItem.price]
             tx2 == InsertModifiers(tx1, item_id, itemReq.modifiers, 1)
         IN IF tx2.err # "none" THEN tx2
            ELSE [tx2 EXCEPT !.items[Len(tx2.items)].price = tx2.price,
                             !.order.total = @ + tx2.price]

\* One iteration of the line loop.  The item row is inserted with price 0 and the
\* price written after the modifiers; the running total is kept in the order.
InsertLine(tx, itemReq, stationID, item_id) ==
    IF itemReq.menu_item_id \notin DOMAIN menu_items
    THEN [tx EXCEPT !.err = "failed to get menu item"]
    ELSE IF stationID = NULL
    THEN [tx EXCEPT !.err = "failed to get routing station"]
    ELSE IF itemReq.quantity <= 0
    THEN [tx EXCEPT !.err = "failed to create order item"]
    ELSE LET menuItem == menu_items[itemReq.menu_item_id]
             createdItem == [order_id |-> tx.order.id,
                             menu_item_id |-> itemReq.menu_item_id,
                             station_id |-> stationID,
                             quantity |-> itemReq.quantity,
                             price |-> 0,
                             status |-> OrderItemStatusPending,
                             special_instructions |-> itemReq.special_instructions,
                             sent_to_station_at |-> NullTime,
                             completed_at |-> NullTime]
             tx1 == [tx EXCEPT !.items = Append(@, createdItem),
                               !.price = menuItem.price]
             tx2 == InsertModifiers(tx1, item_id, itemReq.modifiers, 1)
         IN IF tx2.err # "none" THEN tx2
            ELSE [tx2 EXCEPT !.items[Len(tx2.items)].price = tx2.price,
                             !.order.total = @ + tx2.price * itemReq.quantity]

RECURSIVE InsertLines(_, _, _, _, _)
InsertLines(tx, itemRequests, route, first_item_id, k) ==
    IF k > Len(itemRequests) \/ tx.err # "none" THEN tx
    ELSE InsertLines(InsertLine(tx, itemRequests[k], route[k], first_item_id + k - 1),
                     itemRequests, route, first_item_id, k + 1)

\* tx.Commit(): the rows of the transaction become visible.
Commit(tx) ==
    /\ orders' = Append(orders, [status |-> tx.order.status,
                                 total |-> tx.order.total,
                                 completed_at |-> NullTime])
    /\ order_items' = order_items \o tx.items
    /\ order_item_modifiers' = order_item_modifiers \o tx.mods

\* A rollback that discards nothing: the rows written before the failure stay.
RollbackLeak(tx) ==
    Commit(tx)

\* The deferred tx.Rollback() taken when err != nil: the rows are discarded.
Rollback(tx) ==
    UNCHANGED tables

\* The station the routing query returns for each line (NULL: no row).
Routes(itemRequests) ==
    { route \in [1..Len(itemRequests) -> DOMAIN stations \cup {NULL}] :
        \A k \in 1..Len(itemRequests) :
            LET c == LowestPriorityStations(itemRequests[k].menu_item_id)
            IN IF c = {} THEN route[k] = NULL ELSE route[k] \in c }

\* The transaction Create runs for a request, up to its commit or rollback.
CreateTx(itemRequests, route) ==
    InsertLines(BeginTx([id |-> Len(orders) + 1, status |-> OrderStatusNew, total |-> 0]),
                itemRequests, route, Len(order_items) + 1, 1)

\* The order entity Create returns (models.Order with its Items): each item as
\* its INSERT returned it, with the name read from menu_items, the price computed
\* in the loop, and the modifiers with the names read from modifier_options.
CreatedOrder(tx) ==
    [id |-> tx.order.id, status |-> tx.order.status, total |-> tx.order.total,
     items |-> [k \in 1..Len(tx.items) |->
                  [id |-> Len(order_items) + k,
                   station_id |-> tx.items[k].station_id,
                   status |-> tx.items[k].status,
                   name |-> menu_items[tx.items[k].menu_item_id].name,
                   quantity |-> tx.items[k].quantity,
                   price |-> tx.items[k].price,
                   modifiers |->
                      LET own == SelectSeq(tx.mods,
                                     LAMBDA m : m.order_item_id = Len(order_items) + k)
                      IN [j \in 1..Len(own) |->
                            [name |-> modifier_options[own[j].modifier_option_id].name,
                             price_adjustment |-> own[j].price_adjustment]]]]]

\* OrderService.CreateOrder up to the return of repos.Order.Create.  dbErr is a
\* statement or the commit failing in the database.
CreateOrder(w, itemRequests, route, dbErr) ==
    /\ Receive(w)
    /\ LET tx == CreateTx(itemRequests, route)
           err == IF tx.err # "none" THEN tx.err
                  ELSE IF dbErr THEN "failed to commit transaction" ELSE "none"
       IN IF err # "none"
          THEN /\ Rollback(tx)
               /\ last' = [op |-> "CreateOrder", ret |-> err]
               /\ UNCHANGED calls
          ELSE /\ Commit(tx)
               /\ calls' = [calls EXCEPT ![w] =
                              [op |-> "CreateOrder", at |-> "processNewOrder",
                               order |-> CreatedOrder(tx)]]
               /\ UNCHANGED last
    /\ UNCHANGED <<catalog, hubVars, tickets>>

\* ------------------------------------------------ OrderRepository.UpdateStatus
\* Identifiers a request may name: those of the rows, and 0, which names no row.
OrderIds == {0} \cup DOMAIN orders
ItemIds  == {0} \cup DOMAIN order_items

\* What the single UPDATE orders ... WHERE id = $n returns: no row matches, or the
\* CHECK constraint on status rejects the value, or one row is written.
UpdateStatusResult(id, status) ==
    IF id \notin DOMAIN orders THEN "order not found"
    ELSE IF status \notin OrderStatusCheck THEN "failed to update order status"
    ELSE "ok"

\* The statement with completed_at = $3 in every branch: any status stamps it.
UpdateStatusRowsStamped(id, status) ==
    IF UpdateStatusResult(id, status) # "ok" THEN orders
    ELSE [orders EXCEPT ![id].status = status,
                        ![id].completed_at = <<now>>]

\* The table orders after that statement.
UpdateStatusRows(id, status) ==
    IF UpdateStatusResult(id, status) # "ok" THEN orders
    ELSE [orders EXCEPT ![id].status = status,
                        ![id].completed_at =
                            IF status = OrderStatusCompleted THEN <<now>> ELSE @]

\* OrderService.UpdateOrderStatus / OrderRepository.UpdateStatus: one statement.
UpdateOrderStatus(w, id, status) ==
    /\ Receive(w)
    /\ orders' = UpdateStatusRows(id, status)
    /\ last' = [op |-> "UpdateOrderStatus", ret |-> UpdateStatusResult(id, status)]
    /\ UNCHANGED <<hubVars, tickets, catalog, order_items, order_item_modifiers, calls>>

\* -------------------------------------------- OrderRepository.UpdateItemStatus
\* The UPDATE without the check of the rows it affected: no row is a success.
UpdateItemResultSilent(itemID, status) ==
    IF itemID \in DOMAIN order_items /\ status \notin OrderItemStatusCheck
    THEN "failed to update order item status"
    ELSE "ok"

\* What the UPDATE order_items ... WHERE id = $n returns.
UpdateItemResult(itemID, status) ==
    IF itemID \notin DOMAIN order_items THEN "order item not found"
    ELSE IF status \notin OrderItemStatusCheck THEN "failed to update order item status"
    ELSE "ok"

\* The statement without its CASE WHEN sent_to_station_at IS NULL: in_progress
\* stamps sent_to_station_at anew each time.
UpdateItemRowsRestamp(itemID, status) ==
    IF UpdateItemResult(itemID, status) # "ok" THEN order_items
    ELSE [order_items EXCEPT
            ![itemID].status = status,
            ![itemID].completed_at =
                IF status = OrderItemStatusCompleted THEN <<now>> ELSE @,
            ![itemID].sent_to_station_at =
                IF status = OrderItemStatusInProgress THEN <<now>> ELSE @]

\* The table order_items after that statement: the status is written whatever
\* the row's current status; completed stamps completed_at, in_progress stamps
\* sent_to_station_at when it is still NULL.
UpdateItemRows(itemID, status) ==
    IF UpdateItemResult(itemID, status) # "ok" THEN order_items
    ELSE [order_items EXCEPT
            ![itemID].status = status,
            ![itemID].completed_at =
                IF status = OrderItemStatusCompleted THEN <<now>> ELSE @,
            ![itemID].sent_to_station_at =
                IF status = OrderItemStatusInProgress /\ @ = NullTime THEN <<now>> ELSE @]

\* SELECT COUNT(*) FROM order_items WHERE order_id = $1 AND status != 'completed'
PendingCount(orderID) ==
    Cardinality({ i \in DOMAIN order_items :
                    /\ order_items[i].order_id = orderID
                    /\ order_items[i].status # OrderItemStatusCompleted })

\* UpdateItemStatus, first statement.  For a status other than completed the call
\* ends here; for completed it goes on to the sibling check.
UpdateItemStatus(w, itemID, status) ==
    /\ Receive(w)
    /\ order_items' = UpdateItemRows(itemID, status)
    /\ IF UpdateItemResult(itemID, status) = "ok" /\ status = OrderItemStatusCompleted
       THEN /\ calls' = [calls EXCEPT ![w] =
                           [op |-> "UpdateItemStatus", at |-> "pendingCount", item |-> itemID]]
            /\ UNCHANGED last
       ELSE /\ last' = [op |-> "UpdateItemStatus", ret |-> UpdateItemResult(itemID, status)]
            /\ UNCHANGED calls
    /\ UNCHANGED <<hubVars, tickets, catalog, orders, order_item_modifiers>>

\* UpdateItemStatus without its sibling check: it returns after the item row.
UpdateItemStatusNoCascade(w) ==
    /\ calls[w].op = "UpdateItemStatus"
    /\ calls[w].at = "pendingCount"
    /\ calls' = [calls EXCEPT ![w] = Idle]
    /\ last' = [op |-> "UpdateItemStatus", ret |-> "ok"]
    /\ UNCHANGED <<hubVars, tickets, catalog, tables, requests>>

\* UpdateItemStatus, the order_id lookup and the COUNT of non-completed siblings.
UpdateItemStatusCount(w) ==
    /\ calls[w].op = "UpdateItemStatus"
    /\ calls[w].at = "pendingCount"
    /\ LET orderID == order_items[calls[w].item].order_id
       IN IF PendingCount(orderID) = 0
          THEN /\ calls' = [calls EXCEPT ![w] =
                              [op |-> "UpdateItemStatus", at |-> "cascade",
                               item |-> calls[w].item, order |-> orderID]]
               /\ UNCHANGED last
          ELSE /\ calls' = [calls EXCEPT ![w] = Idle]
               /\ last' = [op |-> "UpdateItemStatus", ret |-> "ok"]
    /\ UNCHANGED <<hubVars, tickets, catalog, tables, requests>>

\* UpdateItemStatus, the cascade: r.UpdateStatus(ctx, orderID, completed).
UpdateItemStatusCascade(w) ==
    /\ calls[w].op = "UpdateItemStatus"
    /\ calls[w].at = "cascade"
    /\ orders' = UpdateStatusRows(calls[w].order, OrderStatusCompleted)
    /\ calls' = [calls EXCEPT ![w] = Idle]
    /\ last' = [op |-> "UpdateItemStatus",
                ret |-> UpdateStatusResult(calls[w].order, OrderStatusCompleted)]
    /\ UNCHANGED <<hubVars, tickets, catalog, order_items, order_item_modifiers, requests>>

\* ---------------------------------------------------- OrderRepository.VoidItem
VoidReasons == {"spilled"}

VoidNote(reason) == <<"[VOIDED: ", reason, "]">>

\* The number of void notes an item's instructions carry.
VoidCount(itemID) ==
    Cardinality({ k \in DOMAIN order_items[itemID].special_instructions :
                    order_items[itemID].special_instructions[k] \in
                        { VoidNote(r) : r \in VoidReasons } })

\* The transaction of VoidItem, which takes effect at its commit: the item row is
\* set to cancelled and the note appended whatever the row's current status, then
\* price * quantity is subtracted from the order's total.  For an unknown item the
\* UPDATE matches no row and the SELECT that follows fails with no rows.
VoidItem(w, itemID, reason, dbErr) ==
    /\ Receive(w)
    /\ IF itemID \notin DOMAIN order_items
       THEN /\ last' = [op |-> "VoidItem", ret |-> "failed to get order info"]
            /\ UNCHANGED tables
       ELSE IF dbErr
       THEN /\ last' = [op |-> "VoidItem", ret |-> "failed to commit transaction"]
            /\ UNCHANGED tables
       ELSE LET orderInfo == order_items[itemID]
            IN /\ order_items' = [order_items EXCEPT
                     ![itemID].status = OrderItemStatusCancelled,
                     ![itemID].special_instructions = Append(@, VoidNote(reason))]
               /\ orders' = [orders EXCEPT ![orderInfo.order_id].total =
                                @ - orderInfo.price * orderInfo.quantity]
               /\ last' = [op |-> "VoidItem", ret |-> "ok"]
               /\ UNCHANGED order_item_modifiers
    /\ UNCHANGED <<hubVars, tickets, catalog, calls>>

\* ------------------------------------------------- OrderRepository.GetOrderItems
\* GetOrderItemModifiers: the modifier rows of an item joined with
\* modifier_options, which gives the name; the adjustment is the row's own.
GetOrderItemModifiers(orderItemID) ==
    LET own == SelectSeq(order_item_modifiers,
                         LAMBDA m : /\ m.order_item_id = orderItemID
                                    /\ m.modifier_option_id \in DOMAIN modifier_options)
    IN [j \in 1..Len(own) |->
          [name |-> modifier_options[own[j].modifier_option_id].name,
           price_adjustment |-> own[j].price_adjustment]]

\* GetOrderItems: the item rows of an order joined with menu_items, which gives
\* the name; the price is the row's own.
GetOrderItems(orderID) ==
    LET ids == SelectSeq([i \in 1..Len(order_items) |-> i],
                         LAMBDA i : /\ order_items[i].order_id = orderID
                                    /\ order_items[i].menu_item_id \in DOMAIN menu_items)
    IN [k \in 1..Len(ids) |->
          [id |-> ids[k],
           name |-> menu_items[order_items[ids[k]].menu_item_id].name,
           quantity |-> order_items[ids[k]].quantity,
           price |-> order_items[ids[k]].price,
           modifiers |-> GetOrderItemModifiers(ids[k])]]

\* ------------------------------------------------------ MenuService.UpdateItem
\* models.MenuItemRequest values an administrator may send: the burger renamed
\* and repriced, its station left as it is.
MenuItemRequests == { [name |-> "Cheeseburger", price |-> 900, station_id |-> "kitchen"] }

\* Menu item ids a request may name: an item of the menu, and one that is not.
MenuItemIds == {"burger", "ghost"}

\* MenuService.UpdateItem and MenuRepository.UpdateItem: the item is looked up,
\* then in one transaction its row is rewritten with the request's name and price
\* and one routing rule of the item, whichever the SELECT ... LIMIT 1 returns, is
\* given the request's station (a rule of priority 1 is inserted if the item has
\* none).  UNIQUE(menu_item_id, station_id) rejects a second rule for a station,
\* and the transaction is then never committed.
UpdateItem(w, id, req) ==
    /\ Receive(w)
    /\ IF id \notin DOMAIN menu_items
       THEN /\ last' = [op |-> "UpdateItem", ret |-> "menu item not found"]
            /\ UNCHANGED <<menu_items, routing_rules>>
       ELSE LET rules == { r \in routing_rules : r.menu_item_id = id }
            IN IF rules = {}
               THEN /\ menu_items' = [menu_items EXCEPT ![id].name = req.name,
                                                        ![id].price = req.price]
                    /\ routing_rules' = routing_rules \cup
                          { [menu_item_id |-> id, station_id |-> req.station_id,
                             priority |-> 1] }
                    /\ last' = [op |-> "UpdateItem", ret |-> "ok"]
               ELSE \E rule \in rules :
                       IF \E q \in rules \ {rule} : q.station_id = req.station_id
                       THEN /\ last' = [op |-> "UpdateItem",
                                        ret |-> "failed to update routing rule"]
                            /\ UNCHANGED <<menu_items, routing_rules>>
                       ELSE /\ menu_items' = [menu_items EXCEPT ![id].name = req.name,
                                                                ![id].price = req.price]
                            /\ routing_rules' = (routing_rules \ {rule}) \cup
                                  { [rule EXCEPT !.station_id = req.station_id] }
                            /\ last' = [op |-> "UpdateItem", ret |-> "ok"]
    /\ UNCHANGED <<hubVars, tickets, modifier_options, stations, tables, calls>>

\* ------------------------------------------------ OrderService.processNewOrder
\* CreateOrder logs an error of processNewOrder and returns the created order.
ReturnCreated(w) ==
    /\ calls' = [calls EXCEPT ![w] = Idle]
    /\ last' = [op |-> "CreateOrder", ret |-> "ok"]

\* s.repos.Order.UpdateStatus(ctx, order.ID, in_progress), then the grouping of
\* the returned items by station.  An order without items has no station to
\* visit: processNewOrder returns nil and CreateOrder returns the order.
ProcessUpdateStatus(w) ==
    /\ calls[w].op = "CreateOrder"
    /\ calls[w].at = "processNewOrder"
    /\ orders' = UpdateStatusRows(calls[w].order.id, OrderStatusInProgress)
    /\ IF Len(calls[w].order.items) = 0
       THEN ReturnCreated(w)
       ELSE /\ calls' = [calls EXCEPT ![w] =
                    [op |-> "CreateOrder", at |-> "stations", order |-> calls[w].order,
                     remaining |-> { calls[w].order.items[k].station_id :
                                        k \in DOMAIN calls[w].order.items },
                     group |-> <<>>]]
            /\ UNCHANGED last
    /\ UNCHANGED <<hubVars, tickets, catalog, order_items, order_item_modifiers, requests>>

\* The ids of the returned items routed to a station, in the order's item order.
StationGroup(order, stationID) ==
    LET idx == { k \in DOMAIN order.items : order.items[k].station_id = stationID }
        Sorted[S \in SUBSET idx] ==
            IF S = {} THEN <<>>
            ELSE LET m == CHOOSE x \in S : \A y \in S : x <= y
                 IN <<order.items[m].id>> \o Sorted[S \ {m}]
    IN Sorted[idx]

\* PrinterService.PrintOrderItems: the ticket generateItemsText renders for the
\* items it is passed and hands to the station's printer; copy counts the
\* tickets of the order written for that station.
PrintOrderItems(order, items, stationID) ==
    [order |-> order.id, station |-> stationID,
     printer |-> stations[stationID].printer_id, items |-> items,
     copy |-> 1 + Cardinality({ t \in tickets : /\ t.order = order.id
                                                /\ t.station = stationID })]

\* One iteration of the station loop up to the item updates: the map iteration
\* yields the stations in any order; a station with a printer gets a ticket, and
\* a failed PrintOrderItems (printOk false) makes processNewOrder return its error.
ProcessStation(w, stationID, printOk) ==
    /\ calls[w].op = "CreateOrder"
    /\ calls[w].at = "stations"
    /\ stationID \in calls[w].remaining
    /\ IF stations[stationID].printer_id # NULL /\ ~printOk
       THEN /\ ReturnCreated(w)
            /\ UNCHANGED tickets
       ELSE /\ calls' = [calls EXCEPT ![w].at = "items",
                                      ![w].remaining = @ \ {stationID},
                                      ![w].group = StationGroup(calls[w].order, stationID)]
            /\ tickets' = IF stations[stationID].printer_id = NULL THEN tickets
                          ELSE tickets \cup
                                  { PrintOrderItems(calls[w].order,
                                                    StationGroup(calls[w].order, stationID),
                                                    stationID) }
            /\ UNCHANGED last
    /\ UNCHANGED <<hubVars, catalog, tables, requests>>

\* An item loop that leaves after the first item of the station's group.
ProcessItemFirstOnly(w) ==
    /\ calls[w].op = "CreateOrder"
    /\ calls[w].at = "items"
    /\ order_items' = UpdateItemRows(Head(calls[w].group), OrderItemStatusInProgress)
    /\ IF calls[w].remaining # {}
       THEN /\ calls' = [calls EXCEPT ![w].at = "stations", ![w].group = <<>>]
            /\ UNCHANGED last
       ELSE ReturnCreated(w)
    /\ UNCHANGED <<hubVars, tickets, catalog, orders, order_item_modifiers, requests>>

\* s.repos.Order.UpdateItemStatus(ctx, item.ID, in_progress) for the next item of
\* the station's group.
ProcessItem(w) ==
    /\ calls[w].op = "CreateOrder"
    /\ calls[w].at = "items"
    /\ order_items' = UpdateItemRows(Head(calls[w].group), OrderItemStatusInProgress)
    /\ IF Len(calls[w].group) > 1
       THEN /\ calls' = [calls EXCEPT ![w].group = Tail(@)]
            /\ UNCHANGED last
       ELSE IF calls[w].remaining # {}
       THEN /\ calls' = [calls EXCEPT ![w].at = "stations", ![w].group = <<>>]
            /\ UNCHANGED last
       ELSE ReturnCreated(w)
    /\ UNCHANGED <<hubVars, tickets, catalog, orders, order_item_modifiers, requests>>

\* A statement of a call in flight fails in the database (connection lost,
\* context cancelled): UpdateItemStatus returns the error with its earlier
\* statements already applied; CreateOrder logs it and returns the order.
StatementFails(w) ==
    /\ calls[w] # Idle
    /\ calls' = [calls EXCEPT ![w] = Idle]
    /\ last' = IF calls[w].op = "UpdateItemStatus"
               THEN [op |-> "UpdateItemStatus", ret |-> "database error"]
               ELSE [op |-> "CreateOrder", ret |-> "ok"]
    /\ UNCHANGED <<hubVars, tickets, catalog, tables, requests>>

Next ==
    \/ \E w \in Arriving, itemRequests \in OrderRequests, dbErr \in BOOLEAN :
          \E route \in Routes(itemRequests) : CreateOrder(w, itemRequests, route, dbErr)
    \/ \E w \in Workers : ProcessUpdateStatus(w)
    \/ \E w \in Workers, s \in DOMAIN stations, printOk \in BOOLEAN : ProcessStation(w, s, printOk)
    \/ \E w \in Workers : ProcessItem(w)
    \/ \E w \in Arriving, id \in OrderIds, status \in RequestedOrderStatuses :
          UpdateOrderStatus(w, id, status)
    \/ \E w \in Arriving, id \in ItemIds, status \in RequestedItemStatuses :
          UpdateItemStatus(w, id, status)
    \/ \E w \in Workers : UpdateItemStatusCount(w)
    \/ \E w \in Workers : UpdateItemStatusCascade(w)
    \/ \E w \in Arriving, id \in ItemIds, reason \in VoidReasons, dbErr \in BOOLEAN :
          VoidItem(w, id, reason, dbErr)
    \/ \E w \in Workers : StatementFails(w)
    \/ \E w \in Arriving, id \in MenuItemIds, req \in MenuItemRequests :
          UpdateItem(w, id, req)

Spec == Init /\ [][Next]_vars

\* ------------------------------------------------- concurrent completions
\* The store under the requests of a kitchen display alone: orders of two lines
\* are created and processed, and once no CreateOrder is in flight the displays
\* mark items completed, any number of calls at a time; no statement fails in
\* the database.
TwoLineRequests == { <<Burger, Soda>>, <<Soda, Soda>> }

NoCreateInFlight == \A w \in Workers : calls[w] = Idle \/ calls[w].op # "CreateOrder"

NextCompletions ==
    \/ \E w \in Arriving, itemRequests \in TwoLineRequests :
          \E route \in Routes(itemRequests) : CreateOrder(w, itemRequests, route, FALSE)
    \/ \E w \in Workers : ProcessUpdateStatus(w)
    \/ \E w \in Workers, s \in DOMAIN stations, printOk \in BOOLEAN : ProcessStation(w, s, printOk)
    \/ \E w \in Workers : ProcessItem(w)
    \/ \E w \in Arriving, id \in DOMAIN order_items :
          NoCreateInFlight /\ UpdateItemStatus(w, id, OrderItemStatusCompleted)
    \/ \E w \in Workers : UpdateItemStatusCount(w)
    \/ \E w \in Workers : UpdateItemStatusCascade(w)

SpecCompletions == Init /\ [][NextCompletions]_vars

\* ================================================================== the hub
\* A runtime panic: recovered by the caller's goroutine (net/http recovers the
\* panics of a handler) or not, and then the process ends.
Panic(reason, recovered) ==
    /\ panicked' = reason
    /\ crashed' = ~recovered

NoPanic == UNCHANGED <<panicked, crashed>>

\* make(chan []byte, 256), modelled with SendCap slots, and with WideCap slots
\* for the displays.
Capacity(c) == IF c \in Displays THEN WideCap ELSE SendCap

\* select { case client.send <- message: ... default: ... } has room to send.
HasRoom(c) == Len(send[c]) < Capacity(c)

\* ServeWs: NewClient, then client.hub.register <- client, which returns when the
\* loop of Run has received the client; then the two pumps are started.
ServeWs(c) ==
    /\ ~crashed
    /\ hub = Select
    /\ sessions[c] = NoSession
    /\ hub' = [at |-> "register", client |-> c]
    /\ sessions' = [sessions EXCEPT ![c] =
                      [readPump |-> "run", writePump |-> "run", wire |-> <<>>]]
    /\ UNCHANGED <<clients, stationChannels, mu, send, closed, callers>>
    /\ NoPanic

\* Run, case client := <-h.register: h.clients[client] = true
RunRegister ==
    /\ ~crashed
    /\ hub.at = "register"
    /\ clients' = clients \cup {hub.client}
    /\ hub' = Select
    /\ UNCHANGED <<stationChannels, mu, send, closed, sessions, callers>>
    /\ NoPanic

\* Hub.RegisterStationClient under h.mu.
RegisterStationClient(c, stationID) ==
    /\ mu = "free"
    /\ stationChannels' = [stationChannels EXCEPT ![stationID] = @ \cup {c}]

\* readPump, case TypeDisplayRegister: c.SetStationID(registerData.StationID).
SetStationID(c, stationID) ==
    /\ ~crashed
    /\ sessions[c].readPump = "run"
    /\ RegisterStationClient(c, stationID)
    /\ UNCHANGED <<clients, mu, send, closed, hub, sessions, callers>>
    /\ NoPanic

\* readPump, case TypePing: c.send <- pongMsg, a blocking send on the client's
\* own channel, which panics when the hub has closed it.  With a full channel
\* readPump stays in the send, where it reads no further message.
ReadPing(c) ==
    /\ ~crashed
    /\ sessions[c].readPump = "run"
    /\ IF closed[c]
       THEN /\ Panic("send on closed channel", FALSE)
            /\ UNCHANGED <<send, sessions>>
       ELSE IF HasRoom(c)
       THEN /\ send' = [send EXCEPT ![c] = Append(@, Pong)]
            /\ UNCHANGED sessions
            /\ NoPanic
       ELSE /\ sessions' = [sessions EXCEPT ![c].readPump = "pong"]
            /\ UNCHANGED send
            /\ NoPanic
    /\ UNCHANGED <<clients, stationChannels, mu, closed, hub, callers>>

\* readPump blocked in c.send <- pongMsg: the send goes through once writePump
\* has made room, and panics when the hub closes the channel meanwhile.
PongSend(c) ==
    /\ ~crashed
    /\ sessions[c].readPump = "pong"
    /\ closed[c] \/ HasRoom(c)
    /\ IF closed[c]
       THEN /\ Panic("send on closed channel", FALSE)
            /\ UNCHANGED <<send, sessions>>
       ELSE /\ send' = [send EXCEPT ![c] = Append(@, Pong)]
            /\ sessions' = [sessions EXCEPT ![c].readPump = "run"]
            /\ NoPanic
    /\ UNCHANGED <<clients, stationChannels, mu, closed, hub, callers>>

\* h.broadcast <- message (readPump's printer status and default cases, and the
\* handlers' BroadcastMessage): the loop of Run receives it and starts to range
\* over h.clients.
Broadcast(message) ==
    /\ ~crashed
    /\ hub = Select
    /\ clients # {}
    /\ hub' = [at |-> "broadcast", message |-> message, todo |-> clients]
    /\ UNCHANGED <<clients, stationChannels, mu, send, closed, sessions, callers>>
    /\ NoPanic

\* The loop's position after the iteration for client c.
AfterIteration(c) ==
    IF hub.todo = {c} THEN Select ELSE [hub EXCEPT !.todo = @ \ {c}]

\* Run, case message := <-h.broadcast, one iteration of the range: a client that
\* was deleted from the map meanwhile is not produced; otherwise the message is
\* sent without blocking, and a client with a full channel is closed and deleted
\* from h.clients.
RunBroadcast(c) ==
    /\ ~crashed
    /\ hub.at = "broadcast"
    /\ c \in hub.todo
    /\ IF c \notin clients
       THEN /\ hub' = AfterIteration(c)
            /\ UNCHANGED <<clients, send, closed>>
            /\ NoPanic
       ELSE IF closed[c]
       THEN /\ Panic("send on closed channel", FALSE)
            /\ UNCHANGED <<clients, send, closed, hub>>
       ELSE IF HasRoom(c)
       THEN /\ send' = [send EXCEPT ![c] = Append(@, hub.message)]
            /\ hub' = AfterIteration(c)
            /\ UNCHANGED <<clients, closed>>
            /\ NoPanic
       ELSE /\ closed' = [closed EXCEPT ![c] = TRUE]
            /\ clients' = clients \ {c}
            /\ hub' = AfterIteration(c)
            /\ UNCHANGED send
            /\ NoPanic
    /\ UNCHANGED <<stationChannels, mu, sessions, callers>>

\* readPump leaves its loop on a read error (the peer went away, the read
\* deadline passed, or writePump closed the connection) and runs its deferred
\* c.hub.unregister <- c.
ReadError(c) ==
    /\ ~crashed
    /\ sessions[c].readPump = "run"
    /\ sessions' = [sessions EXCEPT ![c].readPump = "unregister"]
    /\ UNCHANGED <<clients, stationChannels, mu, send, closed, hub, callers>>
    /\ NoPanic

\* The loop of Run receives from h.unregister; readPump goes on to c.conn.Close()
\* and ends.
Unregister(c) ==
    /\ ~crashed
    /\ hub = Select
    /\ sessions[c].readPump = "unregister"
    /\ hub' = [at |-> "unregister", client |-> c, step |-> "delete"]
    /\ sessions' = [sessions EXCEPT ![c].readPump = "done"]
    /\ UNCHANGED <<clients, stationChannels, mu, send, closed, callers>>
    /\ NoPanic

\* Run, case client := <-h.unregister: if _, ok := h.clients[client]; ok {
\* delete(h.clients, client)
RunUnregisterDelete ==
    /\ ~crashed
    /\ hub.at = "unregister"
    /\ hub.step = "delete"
    /\ IF hub.client \in clients
       THEN /\ clients' = clients \ {hub.client}
            /\ hub' = [hub EXCEPT !.step = "close"]
       ELSE /\ hub' = Select
            /\ UNCHANGED clients
    /\ UNCHANGED <<stationChannels, mu, send, closed, sessions, callers>>
    /\ NoPanic

\* close(client.send)
RunUnregisterClose ==
    /\ ~crashed
    /\ hub.at = "unregister"
    /\ hub.step = "close"
    /\ IF closed[hub.client]
       THEN /\ Panic("close of closed channel", FALSE)
            /\ UNCHANGED <<closed, hub>>
       ELSE /\ closed' = [closed EXCEPT ![hub.client] = TRUE]
            /\ hub' = [hub EXCEPT !.step = "purge"]
            /\ NoPanic
    /\ UNCHANGED <<clients, stationChannels, mu, send, sessions, callers>>

\* h.mu.Lock(); for _, clients := range h.stationChannels { delete(clients,
\* client) }; h.mu.Unlock()
RunUnregisterPurge ==
    /\ ~crashed
    /\ hub.at = "unregister"
    /\ hub.step = "purge"
    /\ mu = "free"
    /\ stationChannels' = [s \in StationIDs |-> stationChannels[s] \ {hub.client}]
    /\ hub' = Select
    /\ UNCHANGED <<clients, mu, send, closed, sessions, callers>>
    /\ NoPanic

\* Hub.BroadcastToStation: h.mu.Lock() and the start of the range over
\* h.stationChannels[stationID].
BroadcastToStation(t, stationID, message) ==
    /\ ~crashed
    /\ callers[t] = Idle
    /\ mu = "free"
    /\ mu' = t
    /\ callers' = [callers EXCEPT ![t] =
                     [op |-> "BroadcastToStation", stationID |-> stationID,
                      message |-> message, todo |-> stationChannels[stationID]]]
    /\ UNCHANGED <<clients, stationChannels, send, closed, hub, sessions>>
    /\ NoPanic

\* The loop of Run stands at a statement that reads or writes h.clients: the
\* write of the register case, the range of the broadcast case, the lookup and
\* delete of the unregister case.  It holds no lock there.
RunAccessesClients ==
    \/ hub.at \in {"register", "broadcast"}
    \/ hub.at = "unregister" /\ hub.step = "delete"

\* One iteration of the range of BroadcastToStation for client c: the message is
\* sent without blocking; a client with a full channel is closed and deleted from
\* this station's set and from h.clients.  A send on a closed channel panics, and
\* the deferred h.mu.Unlock() runs.  The delete from h.clients is made under
\* h.mu, which the loop of Run does not take for h.clients: when the loop is at
\* an access of the map the two race, and the runtime either lets the delete
\* through or ends the process with its fatal error for concurrent map access.
StationSend(t, c, recovered) ==
    /\ ~crashed
    /\ callers[t] # Idle
    /\ c \in callers[t].todo
    /\ IF closed[c]
       THEN /\ Panic("send on closed channel", recovered)
            /\ mu' = "free"
            /\ callers' = [callers EXCEPT ![t] = Idle]
            /\ UNCHANGED <<clients, stationChannels, send, closed>>
       ELSE IF HasRoom(c)
       THEN /\ send' = [send EXCEPT ![c] = Append(@, callers[t].message)]
            /\ callers' = [callers EXCEPT ![t].todo = @ \ {c}]
            /\ UNCHANGED <<clients, stationChannels, mu, closed>>
            /\ NoPanic
       ELSE /\ closed' = [closed EXCEPT ![c] = TRUE]
            /\ stationChannels' = [stationChannels EXCEPT
                                     ![callers[t].stationID] = @ \ {c}]
            /\ callers' = [callers EXCEPT ![t].todo = @ \ {c}]
            /\ UNCHANGED <<mu, send>>
            /\ \/ /\ clients' = clients \ {c}
                  /\ NoPanic
               \/ /\ RunAccessesClients
                  /\ Panic("concurrent map access", FALSE)
                  /\ UNCHANGED clients
    /\ UNCHANGED <<hub, sessions>>

\* The range of BroadcastToStation is over: the deferred h.mu.Unlock().
StationUnlock(t) ==
    /\ ~crashed
    /\ callers[t] # Idle
    /\ callers[t].todo = {}
    /\ mu' = "free"
    /\ callers' = [callers EXCEPT ![t] = Idle]
    /\ UNCHANGED <<clients, stationChannels, send, closed, hub, sessions>>
    /\ NoPanic

\* The connection has been closed by one of the pumps (their deferred
\* c.conn.Close()); it is broken, at the latest, once readPump has seen its error.
ConnClosed(c) == sessions[c].readPump = "done" \/ sessions[c].writePump = "done"
ConnBroken(c) == sessions[c].readPump \in {"unregister", "done"} \/ ConnClosed(c)

\* The frame writePump builds: w.Write(message), then for each of the n - 1
\* messages queued behind it w.Write('\n') and w.Write(<-c.send); the frame is
\* modelled as the sequence of its payloads.
Frame(c, n) == SubSeq(send[c], 1, n)

\* The connection after w.Close() has sent the frame.
Written(c, wire, frame) == IF c \in Displays THEN Append(wire, frame) ELSE wire

\* A writePump that writes the message it received and takes the messages queued
\* behind it off the channel without writing them.
WriteFrameHeadOnly(c, n, written) ==
    /\ ~crashed
    /\ sessions[c].writePump = "run"
    /\ n \in 1..Len(send[c])
    /\ IF written
       THEN /\ ~ConnClosed(c)
            /\ send' = [send EXCEPT ![c] = SubSeq(@, n + 1, Len(@))]
            /\ sessions' = [sessions EXCEPT ![c].wire = Written(c, @, Frame(c, 1))]
       ELSE /\ n = 1
            /\ send' = [send EXCEPT ![c] = Tail(@)]
            /\ sessions' = [sessions EXCEPT ![c].writePump = "done"]
    /\ UNCHANGED <<clients, stationChannels, mu, closed, hub, callers>>
    /\ NoPanic

\* writePump, case message, ok := <-c.send with ok: the message and the n - 1
\* messages queued behind it are written as one frame (written); or the write
\* fails, which the peer or the network may cause at any time, and writePump
\* returns, closing the connection.
WriteFrame(c, n, written) ==
    /\ ~crashed
    /\ sessions[c].writePump = "run"
    /\ n \in 1..Len(send[c])
    /\ IF written
       THEN /\ ~ConnClosed(c)
            /\ send' = [send EXCEPT ![c] = SubSeq(@, n + 1, Len(@))]
            /\ sessions' = [sessions EXCEPT ![c].wire = Written(c, @, Frame(c, n))]
       ELSE /\ n = 1
            /\ send' = [send EXCEPT ![c] = Tail(@)]
            /\ sessions' = [sessions EXCEPT ![c].writePump = "done"]
    /\ UNCHANGED <<clients, stationChannels, mu, closed, hub, callers>>
    /\ NoPanic

\* writePump returns, closing the connection: the channel is closed and drained
\* (!ok) and the close message is written, or the ticker's ping cannot be
\* written, which the peer or the network may cause at any time.
WriteExit(c) ==
    /\ ~crashed
    /\ sessions[c].writePump = "run"
    /\ sessions' = [sessions EXCEPT ![c].writePump = "done"]
    /\ UNCHANGED <<clients, stationChannels, mu, send, closed, hub, callers>>
    /\ NoPanic

NextHub ==
    \/ \E c \in Clients : ServeWs(c) /\ UNCHANGED storeVars
    \/ RunRegister /\ UNCHANGED storeVars
    \/ \E r \in Registrations : SetStationID(r[1], r[2]) /\ UNCHANGED storeVars
    \/ \E c \in Clients : ReadPing(c) /\ UNCHANGED storeVars
    \/ \E c \in Clients : PongSend(c) /\ UNCHANGED storeVars
    \/ \E m \in Messages : Broadcast(m) /\ UNCHANGED storeVars
    \/ \E c \in Clients : RunBroadcast(c) /\ UNCHANGED storeVars
    \/ \E c \in Clients : ReadError(c) /\ UNCHANGED storeVars
    \/ \E c \in Clients : Unregister(c) /\ UNCHANGED storeVars
    \/ RunUnregisterDelete /\ UNCHANGED storeVars
    \/ RunUnregisterClose /\ UNCHANGED storeVars
    \/ RunUnregisterPurge /\ UNCHANGED storeVars
    \/ \E t \in Callers, s \in StationIDs, m \in Messages : BroadcastToStation(t, s, m) /\ UNCHANGED storeVars
    \/ \E t \in Callers, c \in Clients, recovered \in BOOLEAN : StationSend(t, c, recovered) /\ UNCHANGED storeVars
    \/ \E t \in Callers : StationUnlock(t) /\ UNCHANGED storeVars
    \/ \E c \in Clients, n \in 1..SendCap, written \in BOOLEAN : WriteFrame(c, n, written) /\ UNCHANGED storeVars
    \/ \E c \in Clients : WriteExit(c) /\ UNCHANGED storeVars

SpecHub == Init /\ [][NextHub]_vars

\* ================================================================ properties
\* ----------------------------------------------------------- order store
\* The items of an order, and what its non-cancelled items add up to.
ItemsOf(orderID) == { i \in DOMAIN order_items : order_items[i].order_id = orderID }

RECURSIVE LiveTotal(_, _)
LiveTotal(orderID, k) ==
    IF k = 0 THEN 0
    ELSE LiveTotal(orderID, k - 1) +
         (IF order_items[k].order_id = orderID
             /\ order_items[k].status # OrderItemStatusCancelled
          THEN order_items[k].price * order_items[k].quantity
          ELSE 0)

TerminalItemStatuses == {OrderItemStatusCompleted, OrderItemStatusCancelled}

\* C1: in every reachable state every persisted order's total equals the sum of
\* price x quantity over its items whose status is not cancelled.
C1_TotalIsLiveSum ==
    \A o \in DOMAIN orders : orders[o].total = LiveTotal(o, Len(order_items))

\* C4: in every reachable state an order whose status is completed has all its
\* non-cancelled items completed (none is pending or in progress).
C4_CompletedOrderHasCompletedItems ==
    \A o \in DOMAIN orders :
        orders[o].status = OrderStatusCompleted =>
            \A i \in ItemsOf(o) : order_items[i].status \in TerminalItemStatuses

\* C5: when a call of UpdateItemStatus(item, completed) returns without error and
\* in the state it returns in the item is completed and every item of its order
\* is completed or cancelled, at least one being cancelled, the order's status is
\* completed.
C5_CascadeSkipsCancelled ==
    [][\A w \in Workers :
          ( /\ calls[w].op = "UpdateItemStatus"
            /\ calls'[w] = Idle
            /\ last' = [op |-> "UpdateItemStatus", ret |-> "ok"] )
          => LET item == calls[w].item
                 o == order_items[item].order_id
                 siblings == { i \in DOMAIN order_items' : order_items'[i].order_id = o }
             IN ( /\ order_items'[item].status = OrderItemStatusCompleted
                  /\ \A i \in siblings : order_items'[i].status \in TerminalItemStatuses
                  /\ \E i \in siblings : order_items'[i].status = OrderItemStatusCancelled )
                => orders'[o].status = OrderStatusCompleted]_vars

\* C6: the cascade of UpdateItemStatus never sets to completed an order all of
\* whose items are cancelled.
C6_CascadeNeverCompletesAllCancelled ==
    [][\A w \in Workers :
          ( /\ UpdateItemStatusCascade(w)
            /\ orders'[calls[w].order].status = OrderStatusCompleted )
          => \E i \in ItemsOf(calls[w].order) :
                order_items[i].status # OrderItemStatusCancelled]_vars

\* C7: VoidItem applied to an item that is already cancelled or completed leaves
\* the item and its order as they are: the status does not change and the total
\* is not decremented.
C7_VoidOfTerminalItemChangesNothing ==
    [][\A i \in DOMAIN order_items, reason \in VoidReasons, dbErr \in BOOLEAN :
          ( /\ order_items[i].status \in TerminalItemStatuses
            /\ VoidItem(requests + 1, i, reason, dbErr) )
          => /\ order_items'[i] = order_items[i]
             /\ orders' = orders]_vars

\* C8: a CreateOrder one of whose lines fails to resolve (unknown menu item, no
\* routing rule, unknown modifier option) returns that error, leaves the three
\* tables as they were, rows written before the failing line included, and leaves
\* no call in flight that could write them later.
C8_CreateOrderAtomic ==
    [][requests' = requests + 1 =>
       \A itemRequests \in OrderRequests, dbErr \in BOOLEAN :
          \A route \in Routes(itemRequests) :
             ( /\ CreateOrder(requests + 1, itemRequests, route, dbErr)
               /\ CreateTx(itemRequests, route).err # "none" )
             => /\ UNCHANGED tables
                /\ calls' = calls
                /\ last' = [op |-> "CreateOrder",
                            ret |-> CreateTx(itemRequests, route).err]]_vars

\* A CreateOrder has failed at a modifier option, after the item row of that line
\* was written in its transaction, while an earlier order is stored: the tables
\* hold that order alone.
C8_FailedCreateReached ==
    /\ last = [op |-> "CreateOrder", ret |-> "failed to get modifier option"]
    /\ requests = 2
    /\ Len(orders) = 1
    /\ \A i \in DOMAIN order_items : order_items[i].order_id = 1
    /\ order_items # <<>>

\* The edges of the order status machine.
OrderStatusEdges ==
    { <<OrderStatusNew, OrderStatusInProgress>>,
      <<OrderStatusInProgress, OrderStatusCompleted>>,
      <<OrderStatusInProgress, OrderStatusCancelled>> }

\* C9: every change of an order's status follows an edge of
\* new -> in_progress -> {completed, cancelled}.
C9_OrderStatusFollowsEdges ==
    [][\A o \in DOMAIN orders :
          orders'[o].status # orders[o].status =>
              <<orders[o].status, orders'[o].status>> \in OrderStatusEdges]_vars

\* The edges of the item status machine, a void of a pending item included.
OrderItemStatusEdges ==
    { <<OrderItemStatusPending, OrderItemStatusInProgress>>,
      <<OrderItemStatusInProgress, OrderItemStatusCompleted>>,
      <<OrderItemStatusInProgress, OrderItemStatusCancelled>>,
      <<OrderItemStatusPending, OrderItemStatusCancelled>> }

\* C10: every change of an order item's status follows an edge of
\* pending -> in_progress -> {completed, cancelled} (or voids a pending item):
\* an item that is completed or cancelled keeps its status.
C10_ItemStatusFollowsEdges ==
    [][\A i \in DOMAIN order_items :
          order_items'[i].status # order_items[i].status =>
              <<order_items[i].status, order_items'[i].status>>
                  \in OrderItemStatusEdges]_vars

\* ------------------------------------------------------------------- hub
\* The hub finds the queue of client c full during a delivery and drops it.
DropsOnFullQueue(c) ==
    /\ ~closed[c]
    /\ closed'[c]
    /\ \/ RunBroadcast(c)
       \/ \E t \in Callers, recovered \in BOOLEAN : StationSend(t, c, recovered)

\* C2: a client dropped for a full queue during a BroadcastAll or a
\* BroadcastToStation is, after the drop, in neither the global client set nor
\* any station's subset.
C2_DroppedClientLeavesEveryRegistry ==
    [][\A c \in Clients :
          DropsOnFullQueue(c) =>
              /\ c \notin clients'
              /\ \A s \in StationIDs : c \notin stationChannels'[s]]_vars

\* C3: BroadcastToStation(S, msg) enqueues msg only on clients that are in the
\* global client set (or whose registration the hub is recording) and are
\* registered for station S.
C3_StationSendOnlyToRegisteredClients ==
    [][\A t \in Callers, c \in Clients :
          ( /\ \E recovered \in BOOLEAN : StationSend(t, c, recovered)
            /\ Len(send'[c]) > Len(send[c]) )
          => /\ c \in clients \/ (hub.at = "register" /\ hub.client = c)
             /\ c \in stationChannels[callers[t].stationID]]_vars

\* C11: an item's sent_to_station_at is set by its first transition to
\* in_progress, and once set no step changes it: not a later UpdateItemStatus,
\* to in_progress again or to another status, and not a VoidItem.
C11_SentToStationSetOnce ==
    [][\A i \in DOMAIN order_items :
          /\ order_items[i].sent_to_station_at # NullTime =>
                order_items'[i].sent_to_station_at = order_items[i].sent_to_station_at
          /\ ( /\ order_items[i].status # OrderItemStatusInProgress
               /\ order_items'[i].status = OrderItemStatusInProgress )
             => order_items'[i].sent_to_station_at # NullTime]_vars

\* The only item of the store was stamped while its order was processed, at
\* request 1, and the third request, an UpdateItemStatus, has left it in
\* progress: it was transitioned to in_progress again and kept its stamp.
C11_RetransitionReached ==
    /\ requests = 3
    /\ \A w \in Workers : calls[w] = Idle
    /\ Len(order_items) = 1
    /\ order_items[1].status = OrderItemStatusInProgress
    /\ order_items[1].sent_to_station_at = <<1>>
    /\ last = [op |-> "UpdateItemStatus", ret |-> "ok"]

\* ------------------------------------------------------------- hub, liveness
\* A step of the goroutine of Hub.Run.
RunStep ==
    \/ RunRegister
    \/ \E c \in Clients : RunBroadcast(c)
    \/ RunUnregisterDelete
    \/ RunUnregisterClose
    \/ RunUnregisterPurge

\* A step of a goroutine inside BroadcastToStation.
StationStep ==
    \/ \E t \in Callers, c \in Clients, recovered \in BOOLEAN : StationSend(t, c, recovered)
    \/ \E t \in Callers : StationUnlock(t)

\* The hub under the Go scheduler: a goroutine that can run is run in the end.
SpecHubFair ==
    /\ SpecHub
    /\ WF_vars(RunStep /\ UNCHANGED storeVars)
    /\ WF_vars(StationStep /\ UNCHANGED storeVars)

\* C12: a fan-out the hub loop has begun is finished, and the loop is back at
\* its select for the next register, unregister or broadcast message, whatever
\* the state of the clients' queues.
C12_BroadcastCompletes ==
    (hub.at = "broadcast") ~> (hub = Select)

\* C13: when the hub loop has finished processing the unregistration of client c,
\* c is in neither the global client set nor any station's subset, and its send
\* channel is closed.
C13_UnregisteredClientIsGone ==
    [][(hub.at = "unregister" /\ hub' = Select) =>
          /\ hub.client \notin clients'
          /\ \A s \in StationIDs : hub.client \notin stationChannels'[s]
          /\ closed'[hub.client]]_vars

\* ------------------------------------------------------- order processing
\* C14: when CreateOrder returns after a processing in which every station
\* lookup, ticket dispatch and item update succeeded, every item of the order has
\* its sent_to_station_at set; and, no other request having arrived meanwhile,
\* the stored order is in progress and every one of its items is in progress.
C14_ProcessedOrderInProgress ==
    [][\A w \in Workers :
          (ProcessItem(w) /\ calls'[w] = Idle) =>
              LET o == calls[w].order.id
                  items == { i \in DOMAIN order_items' : order_items'[i].order_id = o }
              IN /\ items # {}
                 /\ \A i \in items : order_items'[i].sent_to_station_at # NullTime
                 /\ requests = w =>
                       /\ orders'[o].status = OrderStatusInProgress
                       /\ \A i \in items :
                             order_items'[i].status = OrderItemStatusInProgress]_vars

\* The first request, an order of a burger for the kitchen and a soda for the
\* bar, has been processed and has returned.
C14_TwoStationsProcessed ==
    /\ requests = 1
    /\ \A w \in Workers : calls[w] = Idle
    /\ last = [op |-> "CreateOrder", ret |-> "ok"]
    /\ Len(order_items) = 2
    /\ order_items[1].station_id # order_items[2].station_id
    /\ \A i \in 1..2 : /\ order_items[i].status = OrderItemStatusInProgress
                       /\ order_items[i].sent_to_station_at = <<1>>
    /\ orders[1].status = OrderStatusInProgress

\* C15: a failed ticket dispatch does not stop the processing: after the failed
\* dispatch of a station's ticket CreateOrder has not returned yet, and goes on to
\* set the items of that station in progress.
C15_DispatchFailureNotFatal ==
    [][\A w \in Workers, s \in DOMAIN stations :
          ( /\ stations[s].printer_id # NULL
            /\ ProcessStation(w, s, FALSE) )
          => /\ calls'[w] # Idle
             /\ calls'[w].at = "items"
             /\ calls'[w].group = StationGroup(calls[w].order, s)]_vars

\* ------------------------------------------------------ routing and pricing
\* The routing rules of a menu item, and whether a station is the station of one
\* of its rules that no other of its rules undercuts in priority value.
RulesOf(menu_item_id) == { r \in routing_rules : r.menu_item_id = menu_item_id }

IsFirstStation(menu_item_id, stationID) ==
    \E r \in RulesOf(menu_item_id) :
        /\ r.station_id = stationID
        /\ \A q \in RulesOf(menu_item_id) : r.priority <= q.priority

\* A line whose menu item, routing rule and modifier options all exist.
Resolves(itemReq) ==
    /\ itemReq.menu_item_id \in DOMAIN menu_items
    /\ RulesOf(itemReq.menu_item_id) # {}
    /\ \A k \in DOMAIN itemReq.modifiers : itemReq.modifiers[k] \in DOMAIN modifier_options

\* The first line of the request that does not resolve is a known menu item
\* without a routing rule.
FailsAtRouting(itemRequests) ==
    \E k \in DOMAIN itemRequests :
        /\ \A j \in 1..(k - 1) : Resolves(itemRequests[j])
        /\ itemRequests[k].menu_item_id \in DOMAIN menu_items
        /\ RulesOf(itemRequests[k].menu_item_id) = {}

\* C16: every stored line is routed to the station of the rule of its menu item
\* with the lowest priority value (the burger's rules of priority 3, 1 and 2
\* select the priority-1 station), and a CreateOrder that comes to a line whose
\* menu item has no routing rule fails with the routing error, storing nothing.
C16_LowestPriorityRouting ==
    [][/\ \A i \in DOMAIN order_items' \ DOMAIN order_items :
             IsFirstStation(order_items'[i].menu_item_id, order_items'[i].station_id)
       /\ requests' = requests + 1 =>
             \A itemRequests \in OrderRequests, dbErr \in BOOLEAN :
                \A route \in Routes(itemRequests) :
                   ( /\ CreateOrder(requests + 1, itemRequests, route, dbErr)
                     /\ FailsAtRouting(itemRequests) )
                   => /\ last' = [op |-> "CreateOrder",
                                  ret |-> "failed to get routing station"]
                      /\ UNCHANGED tables]_vars

\* A burger, which has rules of priority 3, 1 and 2, is stored with the station
\* of its priority-1 rule, and a later CreateOrder has failed at its routing.
C16_RoutedAndUnroutedReached ==
    /\ \E i \in DOMAIN order_items :
          /\ order_items[i].menu_item_id = "burger"
          /\ order_items[i].station_id = "kitchen"
    /\ Cardinality(RulesOf("burger")) = 3
    /\ last = [op |-> "CreateOrder", ret |-> "failed to get routing station"]

\* The sum of the price adjustments of the first k selected options of a line,
\* its unit price, and the sum of unit price x quantity over the first k lines.
RECURSIVE AdjustmentSum(_, _)
AdjustmentSum(mods, k) ==
    IF k = 0 THEN 0
    ELSE AdjustmentSum(mods, k - 1) + modifier_options[mods[k]].price_adjustment

UnitPrice(itemReq) ==
    menu_items[itemReq.menu_item_id].price
        + AdjustmentSum(itemReq.modifiers, Len(itemReq.modifiers))

RECURSIVE RequestTotal(_, _)
RequestTotal(itemRequests, k) ==
    IF k = 0 THEN 0
    ELSE RequestTotal(itemRequests, k - 1)
            + UnitPrice(itemRequests[k]) * itemRequests[k].quantity

\* C17: a CreateOrder that stores its order stores and returns, for every line,
\* the menu item's base price plus the adjustments of the selected options as
\* the unit price, and stores and returns the sum of unit price x quantity over
\* the lines as the order's total.
C17_PricedFromCatalog ==
    [][requests' = requests + 1 =>
       \A itemRequests \in OrderRequests, dbErr \in BOOLEAN :
          \A route \in Routes(itemRequests) :
             ( /\ CreateOrder(requests + 1, itemRequests, route, dbErr)
               /\ orders' # orders )
             => LET returned == calls'[requests + 1].order
                IN /\ \A k \in DOMAIN itemRequests :
                         /\ order_items'[Len(order_items) + k].price
                               = UnitPrice(itemRequests[k])
                         /\ order_items'[Len(order_items) + k].quantity
                               = itemRequests[k].quantity
                         /\ returned.items[k].price = UnitPrice(itemRequests[k])
                   /\ orders'[Len(orders')].total
                         = RequestTotal(itemRequests, Len(itemRequests))
                   /\ returned.total = RequestTotal(itemRequests, Len(itemRequests))]_vars

\* An order of two burgers at 8.00 with cheese at 1.50 has just been stored: the
\* line is priced 9.50 and the stored and the returned total are 19.00.
C17_TwoCheeseburgersReached ==
    \E w \in Workers :
        /\ calls[w].op = "CreateOrder"
        /\ calls[w].at = "processNewOrder"
        /\ calls[w].order.total = 1900
        /\ Len(calls[w].order.items) = 1
        /\ calls[w].order.items[1].price = 950
        /\ calls[w].order.items[1].quantity = 2
        /\ orders[calls[w].order.id].total = 1900
        /\ order_items[calls[w].order.items[1].id].price = 950

\* ------------------------------------------------------------- snapshots
\* What reading an order returns of the names and prices of its lines and of
\* their modifiers.
ReadSnapshot(orderID) ==
    LET items == GetOrderItems(orderID)
    IN [k \in 1..Len(items) |->
          [name |-> items[k].name, price |-> items[k].price,
           modifiers |-> items[k].modifiers]]

\* The same fields of the order CreateOrder returns.
ReturnedSnapshot(order) ==
    [k \in 1..Len(order.items) |->
       [name |-> order.items[k].name, price |-> order.items[k].price,
        modifiers |-> order.items[k].modifiers]]

\* C18: the names and prices of an order's lines and modifiers are snapshots of
\* the creation: reading the order just stored returns the values CreateOrder
\* returns, and no later step, a catalog mutation included, changes what reading
\* a stored order returns of them.
C18_SnapshotsSurviveCatalogMutation ==
    [][/\ \A o \in DOMAIN orders : ReadSnapshot(o)' = ReadSnapshot(o)
       /\ \A w \in Workers :
             ( /\ calls[w] = Idle
               /\ calls'[w] # Idle
               /\ calls'[w].op = "CreateOrder" )
             => \A o \in DOMAIN orders' :
                   o = calls'[w].order.id
                   => ReadSnapshot(o)' = ReturnedSnapshot(calls'[w].order)]_vars

\* ---------------------------------------------------------------- tickets
\* The tickets among T written for a station of an order.
TicketsOf(T, orderID, stationID) ==
    { t \in T : t.order = orderID /\ t.station = stationID }

\* The stations that have an item of the order and a printer, but no ticket of
\* the order among T.
Unserved(T, order) ==
    { s \in { order.items[k].station_id : k \in DOMAIN order.items } :
        /\ stations[s].printer_id # NULL
        /\ TicketsOf(T, order.id, s) = {} }

\* C19: when the processing of an order ends, every station that has an item of
\* the order and a printer has got exactly one ticket of the order, and a station
\* without a printer none; every ticket lists exactly the items of the order
\* routed to its station.  A processing that ends in the station loop has had
\* the dispatch of one station fail, and that station is left aside; so is a
\* processing that a failed database statement ends.
C19_OneTicketPerPrinterStation ==
    [][\A w \in Workers :
          ( /\ calls[w] # Idle
            /\ calls[w].op = "CreateOrder"
            /\ calls'[w] = Idle
            /\ calls[w].at = "stations" \/ ProcessItem(w) )
          => /\ \A s \in DOMAIN stations :
                   /\ \A t \in TicketsOf(tickets', calls[w].order.id, s) :
                         t.items = StationGroup(calls[w].order, s)
                   /\ Cardinality(TicketsOf(tickets', calls[w].order.id, s)) <= 1
                   /\ stations[s].printer_id = NULL
                         => TicketsOf(tickets', calls[w].order.id, s) = {}
             /\ Cardinality(Unserved(tickets', calls[w].order))
                   <= IF calls[w].at = "stations" THEN 1 ELSE 0]_vars

\* ------------------------------------------------------------ unknown rows
\* C20: UpdateOrderStatus, UpdateItemStatus and VoidItem that name an order or
\* an item that does not exist each return their not-found error (for VoidItem
\* the no-rows error of its order lookup) and leave every order, item and
\* modifier row as it was, with no call left in flight.
C20_UnknownRowNotFound ==
    [][requests' = requests + 1 =>
       /\ \A id \in OrderIds \ DOMAIN orders, status \in RequestedOrderStatuses :
             UpdateOrderStatus(requests + 1, id, status)
             => /\ last' = [op |-> "UpdateOrderStatus", ret |-> "order not found"]
                /\ UNCHANGED <<tables, calls>>
       /\ \A id \in ItemIds \ DOMAIN order_items, status \in RequestedItemStatuses :
             UpdateItemStatus(requests + 1, id, status)
             => /\ last' = [op |-> "UpdateItemStatus", ret |-> "order item not found"]
                /\ UNCHANGED <<tables, calls>>
       /\ \A id \in ItemIds \ DOMAIN order_items, reason \in VoidReasons,
             dbErr \in BOOLEAN :
             VoidItem(requests + 1, id, reason, dbErr)
             => /\ last' = [op |-> "VoidItem", ret |-> "failed to get order info"]
                /\ UNCHANGED <<tables, calls>>]_vars

\* An order and its item are stored, and a VoidItem that named no item has
\* returned its error.
C20_UnknownItemVoidReached ==
    /\ Len(orders) > 0
    /\ Len(order_items) > 0
    /\ \A i \in DOMAIN order_items : order_items[i].status # OrderItemStatusCancelled
    /\ last = [op |-> "VoidItem", ret |-> "failed to get order info"]

\* ------------------------------------------------------------- validation
\* A request CreateOrder has to reject: no line, or a line of quantity below 1.
Malformed(itemRequests) ==
    \/ Len(itemRequests) = 0
    \/ \E k \in DOMAIN itemRequests : itemRequests[k].quantity < 1

\* C21: a CreateOrder given no line, or a line of quantity below 1, returns an
\* error and stores nothing, so that every stored order has an item and every
\* stored item a quantity of at least 1.
C21_MalformedOrderRejected ==
    [][requests' = requests + 1 =>
       /\ \A itemRequests \in OrderRequests, dbErr \in BOOLEAN :
             \A route \in Routes(itemRequests) :
                ( /\ CreateOrder(requests + 1, itemRequests, route, dbErr)
                  /\ Malformed(itemRequests) )
                => /\ UNCHANGED <<tables, calls>>
                   /\ last'.op = "CreateOrder"
                   /\ last'.ret # "ok"
       /\ \A o \in DOMAIN orders' :
             \E i \in DOMAIN order_items' : order_items'[i].order_id = o
       /\ \A i \in DOMAIN order_items' : order_items'[i].quantity >= 1]_vars

\* ------------------------------------------------- the hub's global set
\* A caller of BroadcastToStation stands before an iteration that deletes a
\* client from h.clients.
CallerAccessesClients(t) ==
    /\ callers[t] # Idle
    /\ \E c \in callers[t].todo : ~closed[c] /\ ~HasRoom(c)

\* C22: the global client set is read and written by the loop of Run alone: a
\* step that changes it is a step of the loop, and in no state does a caller of
\* BroadcastToStation stand at an access of the set while the loop stands at one.
C22_ClientsOwnedByRun ==
    [][/\ clients' # clients => hub' # hub
       /\ ~crashed' =>
             ~( /\ RunAccessesClients'
                /\ \E t \in Callers : CallerAccessesClients(t)' )]_vars

\* ---------------------------------------------------- UpdateItemStatus
\* C23: UpdateItemStatus(item, completed) applies all of its effects or none: when
\* a call that has gone past its first statement returns an error, the item row
\* does not carry the completion that this call wrote (the call that serves
\* request w writes completed_at = w - 1, the time of its first statement, which
\* no other call writes to an item).
C23_UpdateItemStatusAllOrNothing ==
    [][\A w \in Workers :
          ( /\ calls[w] # Idle
            /\ calls[w].op = "UpdateItemStatus"
            /\ calls'[w] = Idle
            /\ last'.op = "UpdateItemStatus"
            /\ last'.ret # "ok" )
          => ~( /\ order_items'[calls[w].item].status = OrderItemStatusCompleted
                /\ order_items'[calls[w].item].completed_at = <<w - 1>> )]_vars

C25_QueueClosedOnceNoSendAfter ==
    panicked \notin {"send on closed channel", "close of closed channel"}

\* C26: every client in the subset of a station is in the global client set (a
\* client the loop of Run has received from h.register and is about to record
\* counts as in the set).
C26_StationClientsAreClients ==
    \A s \in StationIDs : \A c \in stationChannels[s] :
        \/ c \in clients
        \/ hub.at = "register" /\ hub.client = c

\* ------------------------------------------------- concurrent completions
\* C27: when the calls that mark the items of an order completed have all
\* returned, the order is completed, however the statements of two calls on its
\* last two items were interleaved: the cascade is not lost.
C27_CascadeNeverLost ==
    \A o \in DOMAIN orders :
        ( /\ \A w \in Workers : calls[w] = Idle
          /\ \A i \in ItemsOf(o) : order_items[i].status = OrderItemStatusCompleted )
        => orders[o].status = OrderStatusCompleted

\* The calls of requests 2 and 3 have each written one of the two items of the
\* order while the other was in flight and each has counted no sibling left: the
\* first has completed the order and returned, the second is at its own cascade.
C27_BothCallsCascade ==
    /\ requests = 3
    /\ calls[2] = Idle
    /\ calls[3] # Idle
    /\ calls[3].op = "UpdateItemStatus"
    /\ calls[3].at = "cascade"
    /\ last = [op |-> "UpdateItemStatus", ret |-> "ok"]
    /\ orders[1].status = OrderStatusCompleted
    /\ orders[1].completed_at = <<3>>
    /\ Len(order_items) = 2
    /\ order_items[1].completed_at # order_items[2].completed_at

\* ------------------------------------------------------ returned entity
\* C30: when CreateOrder returns, the order it returns carries the status of the
\* stored order and, item by item, the statuses of the stored items.
C30_ReturnedOrderMatchesStore ==
    [][\A w \in Workers :
          ( /\ calls[w] # Idle
            /\ calls[w].op = "CreateOrder"
            /\ calls'[w] = Idle )
          => /\ calls[w].order.status = orders'[calls[w].order.id].status
             /\ \A k \in DOMAIN calls[w].order.items :
                   calls[w].order.items[k].status
                      = order_items'[calls[w].order.items[k].id].status]_vars

\* ------------------------------------------------------ session teardown
\* The hub and the sessions of its clients, without station broadcasts.
NextSessions ==
    \/ \E c \in Clients : ServeWs(c) /\ UNCHANGED storeVars
    \/ RunRegister /\ UNCHANGED storeVars
    \/ \E c \in Clients : ReadPing(c) /\ UNCHANGED storeVars
    \/ \E c \in Clients : PongSend(c) /\ UNCHANGED storeVars
    \/ \E m \in Messages : Broadcast(m) /\ UNCHANGED storeVars
    \/ \E c \in Clients : RunBroadcast(c) /\ UNCHANGED storeVars
    \/ \E c \in Clients : ReadError(c) /\ UNCHANGED storeVars
    \/ \E c \in Clients : Unregister(c) /\ UNCHANGED storeVars
    \/ RunUnregisterDelete /\ UNCHANGED storeVars
    \/ RunUnregisterClose /\ UNCHANGED storeVars
    \/ RunUnregisterPurge /\ UNCHANGED storeVars
    \/ \E c \in Clients, n \in 1..SendCap, written \in BOOLEAN : WriteFrame(c, n, written) /\ UNCHANGED storeVars
    \/ \E c \in Clients : WriteExit(c) /\ UNCHANGED storeVars

\* A step readPump takes without a new message from its peer: the blocked pong
\* send goes through, or c.conn.ReadMessage() fails on the closed connection.
ReadStep(c) ==
    \/ PongSend(c)
    \/ ConnClosed(c) /\ ReadError(c)

\* A step writePump takes by itself: it writes what is queued, fails to write on
\* the broken connection, or returns on the closed channel or the failed ping.
WriteStep(c) ==
    \/ \E n \in 1..SendCap : WriteFrame(c, n, TRUE)
    \/ ConnBroken(c) /\ WriteFrame(c, 1, FALSE)
    \/ (ConnBroken(c) \/ (closed[c] /\ send[c] = <<>>)) /\ WriteExit(c)

\* The sessions under the Go scheduler: a goroutine that can run is run in the
\* end, a sender blocked on a channel is served when its receiver comes by, and
\* the select of Run, which chooses at random among its ready cases, does not
\* pass over h.unregister for ever.
SpecSessionsFair ==
    /\ Init /\ [][NextSessions]_vars
    /\ WF_vars(RunStep /\ UNCHANGED storeVars)
    /\ \A c \in Clients :
          /\ SF_vars(ReadStep(c) /\ UNCHANGED storeVars)
          /\ SF_vars(Unregister(c) /\ UNCHANGED storeVars)
          /\ WF_vars(WriteStep(c) /\ UNCHANGED storeVars)

\* C28: once the connection of a session has failed or has been closed, the
\* session's readPump and writePump both end and the client leaves h.clients
\* (unless the process has ended), whatever the fill of the client's queue and
\* whichever pump ended first.
C28_BrokenSessionTornDown ==
    \A c \in Clients :
       (sessions[c] # NoSession /\ ConnBroken(c))
          ~> ( \/ crashed
               \/ /\ sessions[c].readPump = "done"
                  /\ sessions[c].writePump = "done"
                  /\ c \notin clients )

\* ----------------------------------------------------------------- fan-out
\* The payloads of a sequence of frames, in the order they were written.
RECURSIVE Flat(_)
Flat(frames) == IF frames = <<>> THEN <<>> ELSE Head(frames) \o Flat(Tail(frames))

Range(seq) == { seq[i] : i \in DOMAIN seq }

\* The payloads display c has been sent: those written to its connection and
\* those still in its queue.
Delivered(c) == Flat(sessions[c].wire) \o send[c]

\* The hub with the two displays: each payload is broadcast until a display has
\* got it, and a display pings until it has got its pong.
NextFanout ==
    \/ \E c \in Displays : ServeWs(c) /\ UNCHANGED storeVars
    \/ RunRegister /\ UNCHANGED storeVars
    \/ \E c \in Displays : Pong \notin Range(Delivered(c)) /\ ReadPing(c) /\ UNCHANGED storeVars
    \/ \E c \in Displays : PongSend(c) /\ UNCHANGED storeVars
    \/ \E m \in Broadcasts :
          /\ \A c \in Displays : m \notin Range(Delivered(c))
          /\ Broadcast(m) /\ UNCHANGED storeVars
    \/ \E c \in Displays : RunBroadcast(c) /\ UNCHANGED storeVars
    \/ \E c \in Displays : ReadError(c) /\ UNCHANGED storeVars
    \/ \E c \in Displays : Unregister(c) /\ UNCHANGED storeVars
    \/ RunUnregisterDelete /\ UNCHANGED storeVars
    \/ RunUnregisterClose /\ UNCHANGED storeVars
    \/ RunUnregisterPurge /\ UNCHANGED storeVars
    \/ \E c \in Displays, n \in 1..WideCap, written \in BOOLEAN : WriteFrame(c, n, written) /\ UNCHANGED storeVars
    \/ \E c \in Displays : WriteExit(c) /\ UNCHANGED storeVars

SpecFanout == Init /\ [][NextFanout]_vars

\* A step leaves the queue and the connection of c alone, or enqueues one
\* payload at the tail, or writes the first n payloads of the queue, in their
\* order, behind what was written before, or is the failed write that ends
\* writePump.
WritesInOrder(c) ==
    \/ send'[c] = send[c] /\ sessions'[c].wire = sessions[c].wire
    \/ /\ sessions'[c].wire = sessions[c].wire
       /\ \E x \in Broadcasts \cup {Pong} : send'[c] = Append(send[c], x)
    \/ \E n \in 1..Len(send[c]) :
          /\ Flat(sessions'[c].wire) = Flat(sessions[c].wire) \o SubSeq(send[c], 1, n)
          /\ send'[c] = SubSeq(send[c], n + 1, Len(send[c]))
    \/ /\ sessions'[c].wire = sessions[c].wire
       /\ send[c] # <<>> /\ send'[c] = Tail(send[c])
       /\ sessions[c].writePump = "run" /\ sessions'[c].writePump = "done"

IsBroadcast(x) == x \in Broadcasts

\* The broadcast payloads display c has been sent, in their order.
BroadcastsOf(c) == SelectSeq(Delivered(c), IsBroadcast)

Before(seq, x, y) == \E i, j \in DOMAIN seq : i < j /\ seq[i] = x /\ seq[j] = y

\* No two broadcast payloads were sent to c in one order and to d in the other.
SameOrder(c, d) ==
    \A x, y \in Broadcasts :
       ~(Before(BroadcastsOf(c), x, y) /\ Before(BroadcastsOf(d), y, x))

====
